---- MODULE Spec2Model ----
(***************************************************************************)
(* Convoy coordination core of src/motion_detector.py (class               *)
(* MotionDetector): the driving-mode state machine, the brake actuator,    *)
(* the heartbeat loop, the inbound WARNING/MODE dispatcher, the status     *)
(* reporter, the event log and the start/stop life cycle.                  *)
(*                                                                         *)
(* Four threads share one MotionDetector object and take no lock:          *)
(*   "cmd"  main(): set_driving_mode(args.mode), start(), console loop,    *)
(*          stop()                                                         *)
(*   "det"  process_frame()      (sensing / actuation loop)                *)
(*   "hb"   send_heartbeat()     (heartbeat loop)                          *)
(*   "lcm"  _lcm_handler_loop()  (inbound dispatch loop)                   *)
(* A step of the model is at most one access to a field that another       *)
(* thread may write or read (driving_mode, motion_detected,                *)
(* brake_lights_on, running, log_messages) or one output (publish, print), *)
(* so that every interleaving CPython's thread switching allows between    *)
(* two such accesses is a behaviour of the model.                          *)
(*                                                                         *)
(* Abstractions: time stamps are left out of messages and log entries      *)
(* (the clock is not modelled); the camera and the background subtractor   *)
(* are a nondeterministic boolean per frame; the transport delivers to     *)
(* the dispatcher any message of InboundMsgs; lcm.publish returns (UDP     *)
(* multicast, fire and forget); cv2.waitKey(1) never reports 'q' (no       *)
(* window is ever shown); KeyboardInterrupt and end of input leave the     *)
(* command loop the way "q" does. published and console are bags: the      *)
(* order of outputs of different threads is not observed.                  *)
(***************************************************************************)
EXTENDS Integers, Sequences, FiniteSets, Bags, TLC

\* ------------------------------------------------------------------ bounds
\* Loop iterations and console commands the environment supplies in one run
\* (frames read, heartbeat periods, transport pumps, console inputs).
MaxOps == 2

\* LogSpec: entries appended to the Event Log, and show_logs calls, in one run
MaxLog == 11
MaxShows == 1

\* NetSpec: WARNING messages originated (by sensing or by the 'w' command)
MaxWarnings == 1

\* ------------------------------------------------------- program constants
\* vehicle_id default of MotionDetector.__init__ / --vehicle-id
VEHICLE_ID == 1
\* identity of another vehicle on the same broadcast domain
OTHER_ID == VEHICLE_ID + 1

SINGLE == 0
HEAD == 1
MEMBER == 2

\* `mode in [0, 1, 2]`
ValidModes == {SINGLE, HEAD, MEMBER}
\* arguments set_driving_mode is called with (the method takes any integer)
ModeInputs == -1 .. 3

\* mode_names = ["Single Vehicle", "Head in Convoy", "In Convoy"]
mode_names == <<"Single Vehicle", "Head in Convoy", "In Convoy">>

\* show_logs: self.log_messages[-10:]
LogWindow == 10

Threads == {"cmd", "det", "hb", "lcm"}

\* NetSpec: the vehicle_ids of the processes on udpm://239.255.76.67:7667
Vehicles == {VEHICLE_ID, OTHER_ID}

\* console inputs of the command loop in start(); "x" is any other line
Commands == {"q", "0", "1", "2", "s", "l", "st", "w", "x"}

VARIABLES
  driving_mode,     \* self.driving_mode
  motion_detected,  \* self.motion_detected
  brake_lights_on,  \* self.brake_lights_on
  running,          \* self.running
  log_messages,     \* self.log_messages (the Event Log)
  cap,              \* self.cap: "none" | "open" | "failed" | "released"
  published,        \* bag of the messages handed to lcm.publish(channel, data)
  console,          \* bag of the lines print()ed
  pc,               \* per thread: where it stands
  ret,              \* per thread: the labels its pending calls continue at
  mode_arg,         \* set_driving_mode: the argument `mode`
  old_mode,         \* set_driving_mode: the local `old_mode`
  desc,             \* send_warning_message: the argument `description`
  msg,              \* the inbound message the dispatcher is handling
  status,           \* send_status_message: the status_t being filled in
  ops,              \* loop iterations and commands consumed so far
  hist,             \* observation counters (not program state), see below
  net               \* NetSpec: the vehicles of one broadcast domain, see there

vars == <<driving_mode, motion_detected, brake_lights_on, running, log_messages,
          cap, published, console, pc, ret, mode_arg, old_mode, desc, msg, status,
          ops,
          hist, net>>

\* the one object that Spec and LogSpec follow step by step
object == <<driving_mode, motion_detected, brake_lights_on, running, log_messages,
            cap, published, console, pc, ret, mode_arg, old_mode, desc, msg,
            status, ops, hist>>

shared == <<driving_mode, motion_detected, brake_lights_on, running>>

\* hist counts what has happened, in the terms the properties are stated in:
\*   sdm_valid       calls of set_driving_mode with a mode in {0,1,2}
\*   last_valid      the mode of the latest such call (SINGLE before the first)
\*   nonsingle       such calls with a mode other than SINGLE
\*   hb_found        heartbeat ticks that found the mode HEAD or MEMBER
\*   relay_accepted  foreign warnings handle_warning_message found the mode
\*                   MEMBER for
\*   dropped         decoded inbound messages carrying the local vehicle_id
\*   rises, falls    false->true and true->false changes of brake_lights_on
\*   single_true     true samples handled on the SINGLE branch
\*   head_true, head_false   samples handled on the HEAD branch
\*   seen            while send_status_message runs: the values <<driving_mode,
\*                   motion_detected, brake_lights_on, running>> the object has
\*                   held since the call began
\*   stale           the mode became MEMBER after the latest sensing cycle began

\* ---------------------------------------------------------------- messages
NoMsg == [channel |-> "NONE", ok |-> TRUE, vehicle_id |-> 0, mode |-> 0,
          description |-> ""]

\* heartbeat_t published on "HEARTBEAT"
HeartbeatMsg(v) ==
  [channel |-> "HEARTBEAT", ok |-> TRUE, vehicle_id |-> v, danger_detected |-> FALSE,
   mode |-> 0, description |-> ""]

\* warning_t published on "WARNING"
WarningMsg(v, d) ==
  [channel |-> "WARNING", ok |-> TRUE, vehicle_id |-> v, danger_detected |-> TRUE,
   mode |-> 0, description |-> d]

\* mode_t published on "MODE"
ModeMsg(v, m) ==
  [channel |-> "MODE", ok |-> TRUE, vehicle_id |-> v, danger_detected |-> FALSE,
   mode |-> m, description |-> mode_names[m + 1]]

\* status_t published on "STATUS"
StatusMsg(v, m, mo, br, ru) ==
  [channel |-> "STATUS", ok |-> TRUE, vehicle_id |-> v, danger_detected |-> FALSE,
   mode |-> m, description |-> "operational",
   motion_detected |-> mo, brake_lights_on |-> br, system_running |-> ru]

\* the fields of status_t read from the shared state, before they are read
NoStatus == [driving_mode |-> 0, motion_detected |-> FALSE, brake_lights_on |-> FALSE]

\* What handle_timeout can hand to a subscribed handler: a WARNING or a MODE
\* message of this vehicle (multicast loops back) or of another one, or bytes
\* that warning_t.decode / mode_t.decode rejects (ok = FALSE).
InboundMsgs ==
  { [channel |-> c, ok |-> o, vehicle_id |-> v, mode |-> m, description |-> d] :
      c \in {"WARNING"}, o \in {TRUE}, v \in {VEHICLE_ID, OTHER_ID},
      m \in {0}, d \in {"Motion detected"} }
  \cup
  { [channel |-> c, ok |-> o, vehicle_id |-> v, mode |-> m, description |-> d] :
      c \in {"MODE"}, o \in {TRUE}, v \in {VEHICLE_ID, OTHER_ID},
      m \in {HEAD}, d \in {mode_names[HEAD + 1]} }
  \cup
  { [channel |-> c, ok |-> FALSE, vehicle_id |-> 0, mode |-> 0, description |-> ""] :
      c \in {"WARNING", "MODE"} }

\* ----------------------------------------------------------------- helpers
Count(s, P(_)) == Cardinality({i \in 1 .. Len(s) : P(s[i])})

\* lcm.publish(channel, data): one more copy of the message on the transport
Sent(bag, m) == bag (+) SetToBag({m})

\* print(line)
Printed(bag, line) == bag (+) SetToBag({line})

\* `for log in lines: print(log)`
RECURSIVE PrintedAll(_, _)
PrintedAll(bag, lines) ==
  IF lines = <<>> THEN bag
  ELSE PrintedAll(Printed(bag, Head(lines)), Tail(lines))

Goto(t, l) == pc' = [pc EXCEPT ![t] = l]

\* a return: continue at the label the caller left
Return(t) ==
  /\ pc' = [pc EXCEPT ![t] = Head(ret[t])]
  /\ ret' = [ret EXCEPT ![t] = Tail(@)]

\* log_event(message): append to log_messages and print the entry
LogEvent(e) ==
  /\ log_messages' = Append(log_messages, e)
  /\ console' = Printed(console, e)

\* threading.Thread.is_alive()
IsAlive(t) == pc[t] \notin {"none", "done"}

\* the controlling thread is inside send_status_message, before its publish
InStatusCall == pc["cmd"] \in {"st_motion", "st_brake", "st_pub"}

\* a write of motion_detected or brake_lights_on by a background thread (the
\* only fields another thread can write while send_status_message runs: the
\* mode and the running flag are written by the controlling thread alone)
Observed(h, mo, br) ==
  IF InStatusCall
    THEN [h EXCEPT !.seen = @ \cup {<<driving_mode, mo, br, running>>}]
    ELSE h

\* ------------------------------------------------------------------- Init
\* MotionDetector.__init__: lines 44-61
Init ==
  /\ driving_mode = SINGLE
  /\ motion_detected = FALSE
  /\ brake_lights_on = FALSE
  /\ running = FALSE
  /\ log_messages = <<>>
  /\ cap = "none"
  /\ published = EmptyBag
  /\ console = EmptyBag
  /\ pc = [t \in Threads |-> IF t = "cmd" THEN "main" ELSE "none"]
  /\ ret = [t \in Threads |-> <<>>]
  /\ mode_arg = 0
  /\ old_mode = 0
  /\ desc = [t \in Threads |-> ""]
  /\ msg = NoMsg
  /\ status = NoStatus
  /\ ops = 0
  /\ hist = [sdm_valid |-> 0, last_valid |-> SINGLE, nonsingle |-> 0,
             hb_found |-> 0, relay_accepted |-> 0, dropped |-> 0,
             rises |-> 0, falls |-> 0,
             single_true |-> 0, head_true |-> 0, head_false |-> 0,
             seen |-> {}, stale |-> FALSE]
  /\ net = [mode |-> [v \in Vehicles |-> SINGLE],
            brake |-> [v \in Vehicles |-> FALSE],
            inbox |-> [v \in Vehicles |-> <<>>],
            pc |-> [v \in Vehicles |-> "main"],
            originated |-> 0]

\* ------------------------------------------------------------ set_driving_mode
\* f"Driving mode changed from {old_mode} to {mode} ({mode_names[mode]})"
ModeChangedEntry(old, m) ==
  "Driving mode changed from " \o ToString(old) \o " to " \o ToString(m)
    \o " (" \o mode_names[m + 1] \o ")"

\* main(): detector.set_driving_mode(args.mode), before start(). argparse lets
\* 0, 1 and 2 through; the other integers of ModeInputs stand for a caller
\* that hands the method a value outside its range.
Main ==
  /\ pc["cmd"] = "main"
  /\ \E m \in ModeInputs : mode_arg' = m
  /\ pc' = [pc EXCEPT !["cmd"] = "sdm"]
  /\ ret' = [ret EXCEPT !["cmd"] = <<"start">>]
  /\ UNCHANGED <<net, shared, log_messages, cap, published, console, old_mode, desc,
                 msg, status, ops, hist>>

\* faulty variant: the rejection is reported through log_event
SetDrivingMode_LogsInvalid ==
  /\ pc["cmd"] = "sdm"
  /\ IF mode_arg \in ValidModes
       THEN /\ old_mode' = driving_mode
            /\ driving_mode' = mode_arg
            /\ Goto("cmd", "sdm_pub")
            /\ hist' = [hist EXCEPT !.sdm_valid = @ + 1,
                                    !.last_valid = mode_arg,
                                    !.nonsingle = IF mode_arg = SINGLE THEN @ ELSE @ + 1,
                                    !.stale = IF mode_arg = MEMBER /\ driving_mode # MEMBER
                                                 /\ pc["det"] \notin {"none", "loop", "done"}
                                              THEN TRUE ELSE @]
            /\ UNCHANGED <<log_messages, console, mode_arg, ret>>
       ELSE /\ LogEvent("Invalid driving mode")
            /\ Return("cmd")
            /\ mode_arg' = 0
            /\ UNCHANGED <<driving_mode, old_mode, hist>>
  /\ UNCHANGED <<net, motion_detected, brake_lights_on, running, cap,
                 published, desc, msg, status, ops>>

\* set_driving_mode, lines 219-221 and 235-236: the test of `mode`, then
\* old_mode = self.driving_mode; self.driving_mode = mode (no other thread
\* writes driving_mode), or the "Invalid driving mode" print
SetDrivingMode ==
  /\ pc["cmd"] = "sdm"
  /\ IF mode_arg \in ValidModes
       THEN /\ old_mode' = driving_mode
            /\ driving_mode' = mode_arg
            /\ Goto("cmd", "sdm_pub")
            /\ hist' = [hist EXCEPT !.sdm_valid = @ + 1,
                                    !.last_valid = mode_arg,
                                    !.nonsingle = IF mode_arg = SINGLE THEN @ ELSE @ + 1,
                                    !.stale = IF mode_arg = MEMBER /\ driving_mode # MEMBER
                                                 /\ pc["det"] \notin {"none", "loop", "done"}
                                              THEN TRUE ELSE @]
            /\ UNCHANGED <<console, mode_arg, ret>>
       ELSE /\ console' = Printed(console, "Invalid driving mode")
            /\ Return("cmd")
            /\ mode_arg' = 0
            /\ UNCHANGED <<driving_mode, old_mode, hist>>
  /\ UNCHANGED <<net, motion_detected, brake_lights_on, running, log_messages, cap,
                 published, desc, msg, status, ops>>

\* faulty variant: the MODE message is published only when the mode really changes
SdmPublish_OnlyOnChange ==
  /\ pc["cmd"] = "sdm_pub"
  /\ published' = IF old_mode = mode_arg THEN published
                  ELSE Sent(published, ModeMsg(VEHICLE_ID, mode_arg))
  /\ Goto("cmd", "sdm_log")
  /\ UNCHANGED <<net, shared, log_messages, cap, console, ret, mode_arg, old_mode,
                 desc, msg, status, ops, hist>>

\* set_driving_mode, lines 224-231: build mode_t and publish it on "MODE"
SdmPublish ==
  /\ pc["cmd"] = "sdm_pub"
  /\ published' = Sent(published, ModeMsg(VEHICLE_ID, mode_arg))
  /\ Goto("cmd", "sdm_log")
  /\ UNCHANGED <<net, shared, log_messages, cap, console, ret, mode_arg, old_mode,
                 desc, msg, status, ops, hist>>

\* set_driving_mode, lines 233-234: log the transition, print the new mode
SdmLog ==
  /\ pc["cmd"] = "sdm_log"
  /\ log_messages' = Append(log_messages, ModeChangedEntry(old_mode, mode_arg))
  /\ console' = Printed(Printed(console, ModeChangedEntry(old_mode, mode_arg)),
                         "Driving mode set to: " \o ToString(mode_arg))
  /\ Return("cmd")
  /\ mode_arg' = 0
  /\ old_mode' = 0
  /\ UNCHANGED <<net, shared, cap, published, desc, msg, status, ops, hist>>

\* ----------------------------------------------------------------- start
\* faulty variant: the running flag is raised before the camera is opened
Start_RunningFirst ==
  /\ pc["cmd"] = "start"
  /\ running' = TRUE
  /\ \E opened \in BOOLEAN :
       IF opened
         THEN /\ cap' = "open"
              /\ console' = Printed(console, "Camera initialized")
              /\ Goto("cmd", "start_det")
         ELSE /\ cap' = "failed"
              /\ console' = Printed(console, "Error: Cannot open camera")
              /\ Goto("cmd", "stop")
  /\ UNCHANGED <<net, driving_mode, motion_detected, brake_lights_on, log_messages,
                 published, ret, mode_arg, old_mode, desc, msg, status, ops, hist>>

\* start(), lines 273-274 (initialize_camera, self.running = True) and, when
\* the camera does not open, the except / finally path into stop()
Start ==
  /\ pc["cmd"] = "start"
  /\ \E opened \in BOOLEAN :
       IF opened
         THEN /\ cap' = "open"
              /\ console' = Printed(console, "Camera initialized")
              /\ running' = TRUE
              /\ Goto("cmd", "start_det")
         ELSE /\ cap' = "failed"
              /\ console' = Printed(console, "Error: Cannot open camera")
              /\ running' = running
              /\ Goto("cmd", "stop")
  /\ UNCHANGED <<net, driving_mode, motion_detected, brake_lights_on, log_messages,
                 published, ret, mode_arg, old_mode, desc, msg, status, ops, hist>>

\* start(), lines 277-286: threading.Thread(target=...).start(), one thread
\* after the other
StartThread(t, here, next) ==
  /\ pc["cmd"] = here
  /\ pc' = [pc EXCEPT !["cmd"] = next, ![t] = "loop"]
  /\ UNCHANGED <<net, shared, log_messages, cap, published, console, ret, mode_arg,
                 old_mode, desc, msg, status, ops, hist>>

StartDetection == StartThread("det", "start_det", "start_hb")
StartHeartbeat == StartThread("hb", "start_hb", "start_lcm")
StartLcm == StartThread("lcm", "start_lcm", "cmd_loop")

\* ------------------------------------------------------------ brake actuator
\* faulty variant: the guard on the current brake state is missing
TurnOnCheck_NoGuard(t) ==
  /\ pc[t] = "on_chk"
  /\ Goto(t, "on_set")
  /\ UNCHANGED <<net, shared, log_messages, cap, published, console, ret, mode_arg,
                 old_mode, desc, msg, status, ops, hist>>

\* turn_on_brake_lights, line 153: `if not self.brake_lights_on`
TurnOnCheck(t) ==
  /\ pc[t] = "on_chk"
  /\ IF ~brake_lights_on
       THEN Goto(t, "on_set") /\ ret' = ret
       ELSE Return(t)
  /\ UNCHANGED <<net, shared, log_messages, cap, published, console, mode_arg,
                 old_mode, desc, msg, status, ops, hist>>

\* turn_on_brake_lights, lines 154-155: set the flag, print "BRAKE LIGHTS ON"
TurnOnSet(t) ==
  /\ pc[t] = "on_set"
  /\ brake_lights_on' = TRUE
  /\ console' = Printed(console, "BRAKE LIGHTS ON")
  /\ hist' = Observed([hist EXCEPT !.rises = IF brake_lights_on THEN @ ELSE @ + 1],
                       motion_detected, TRUE)
  /\ Return(t)
  /\ UNCHANGED <<net, driving_mode, motion_detected, running, log_messages, cap,
                 published, mode_arg, old_mode, desc, msg, status, ops>>

\* turn_off_brake_lights, line 159: `if self.brake_lights_on`
TurnOffCheck ==
  /\ pc["det"] = "off_chk"
  /\ IF brake_lights_on
       THEN Goto("det", "off_set") /\ ret' = ret
       ELSE Return("det")
  /\ UNCHANGED <<net, shared, log_messages, cap, published, console, mode_arg,
                 old_mode, desc, msg, status, ops, hist>>

\* turn_off_brake_lights, lines 160-161: clear the flag, print "BRAKE LIGHTS OFF"
TurnOffSet ==
  /\ pc["det"] = "off_set"
  /\ brake_lights_on' = FALSE
  /\ console' = Printed(console, "BRAKE LIGHTS OFF")
  /\ hist' = Observed([hist EXCEPT !.falls = IF brake_lights_on THEN @ + 1 ELSE @],
                       motion_detected, FALSE)
  /\ Return("det")
  /\ UNCHANGED <<net, driving_mode, motion_detected, running, log_messages, cap,
                 published, mode_arg, old_mode, desc, msg, status, ops>>

\* ------------------------------------------------------ send_warning_message
\* send_warning_message, lines 179-185: build warning_t, publish on "WARNING"
SwmPublish(t) ==
  /\ pc[t] = "swm_pub"
  /\ published' = Sent(published, WarningMsg(VEHICLE_ID, desc[t]))
  /\ Goto(t, "swm_log")
  /\ UNCHANGED <<net, shared, log_messages, cap, console, ret, mode_arg, old_mode,
                 desc, msg, status, ops, hist>>

\* send_warning_message, line 186
SwmLog(t) ==
  /\ pc[t] = "swm_log"
  /\ LogEvent("Warning message sent from vehicle " \o ToString(VEHICLE_ID))
  /\ Return(t)
  /\ desc' = [desc EXCEPT ![t] = ""]
  /\ UNCHANGED <<net, shared, cap, published, mode_arg, old_mode, msg, status, ops,
                 hist>>

\* ------------------------------------------------------------- process_frame
\* faulty variant: the sensing loop does not test the running flag
DetLoop_Forever ==
  /\ pc["det"] = "loop"
  /\ ops < MaxOps
  /\ ops' = ops + 1
  /\ Goto("det", "read")
  /\ hist' = [hist EXCEPT !.stale = FALSE]
  /\ UNCHANGED <<net, shared, log_messages, cap, published, console, ret, mode_arg,
                 old_mode, desc, msg, status>>

\* process_frame, line 109: `while self.running`
DetLoop ==
  /\ pc["det"] = "loop"
  /\ IF running
       THEN /\ ops < MaxOps
            /\ ops' = ops + 1
            /\ Goto("det", "read")
       ELSE /\ ops' = ops
            /\ Goto("det", "done")
  /\ hist' = [hist EXCEPT !.stale = FALSE]
  /\ UNCHANGED <<net, shared, log_messages, cap, published, console, ret, mode_arg,
                 old_mode, desc, msg, status>>

\* process_frame, lines 110-117: cap.read(), detect_motion(frame) and
\* self.motion_detected = motion_detected; a failed read ends the loop
DetRead ==
  /\ pc["det"] = "read"
  /\ \E got \in BOOLEAN, sample \in BOOLEAN :
       IF got
         THEN /\ motion_detected' = sample
              /\ console' = console
              /\ hist' = Observed(hist, sample, brake_lights_on)
              /\ Goto("det", "hdm0")
         ELSE /\ motion_detected' = motion_detected
              /\ console' = Printed(console, "Failed to read frame")
              /\ hist' = hist
              /\ Goto("det", "done")
  /\ UNCHANGED <<net, driving_mode, brake_lights_on, running, log_messages, cap,
                 published, ret, mode_arg, old_mode, desc, msg, status, ops>>

\* handle_driving_mode, lines 132-137: `if self.driving_mode == 0` and the
\* test of self.motion_detected (written by this thread only)
HdmSingle ==
  /\ pc["det"] = "hdm0"
  /\ IF driving_mode = SINGLE
       THEN IF motion_detected
              THEN Goto("det", "on_chk") /\ ret' = [ret EXCEPT !["det"] = <<"h0_log">>]
              ELSE Goto("det", "off_chk") /\ ret' = [ret EXCEPT !["det"] = <<"loop">>]
       ELSE Goto("det", "hdm1") /\ ret' = ret
  /\ hist' = [hist EXCEPT !.single_true =
                IF driving_mode = SINGLE /\ motion_detected THEN @ + 1 ELSE @]
  /\ UNCHANGED <<net, shared, log_messages, cap, published, console, mode_arg,
                 old_mode, desc, msg, status, ops>>

\* handle_driving_mode, line 135; then waitKey and sleep(0.033)
H0Log ==
  /\ pc["det"] = "h0_log"
  /\ LogEvent("Mode 0: Object detected, brake lights ON")
  /\ Goto("det", "loop")
  /\ UNCHANGED <<net, shared, cap, published, ret, mode_arg, old_mode, desc, msg,
                 status, ops, hist>>

\* faulty variant: HEAD sends its warning only when the brake was off
HdmHead_WarnOnEdge ==
  /\ pc["det"] = "hdm1"
  /\ IF driving_mode = HEAD
       THEN IF motion_detected
              THEN /\ Goto("det", "on_chk")
                   /\ ret' = [ret EXCEPT !["det"] =
                                IF brake_lights_on THEN <<"h1_log">>
                                ELSE <<"swm_pub", "h1_log">>]
                   /\ desc' = [desc EXCEPT !["det"] = "Motion detected"]
              ELSE /\ Goto("det", "off_chk")
                   /\ ret' = [ret EXCEPT !["det"] = <<"loop">>]
                   /\ desc' = desc
       ELSE Goto("det", "hdm2") /\ ret' = ret /\ desc' = desc
  /\ hist' = [hist EXCEPT
       !.head_true = IF driving_mode = HEAD /\ motion_detected THEN @ + 1 ELSE @,
       !.head_false = IF driving_mode = HEAD /\ ~motion_detected THEN @ + 1 ELSE @]
  /\ UNCHANGED <<net, shared, log_messages, cap, published, console, mode_arg,
                 old_mode, msg, status, ops>>

\* handle_driving_mode, lines 139-145: `elif self.driving_mode == 1`
HdmHead ==
  /\ pc["det"] = "hdm1"
  /\ IF driving_mode = HEAD
       THEN IF motion_detected
              THEN /\ Goto("det", "on_chk")
                   /\ ret' = [ret EXCEPT !["det"] = <<"swm_pub", "h1_log">>]
                   /\ desc' = [desc EXCEPT !["det"] = "Motion detected"]
              ELSE /\ Goto("det", "off_chk")
                   /\ ret' = [ret EXCEPT !["det"] = <<"loop">>]
                   /\ desc' = desc
       ELSE Goto("det", "hdm2") /\ ret' = ret /\ desc' = desc
  /\ hist' = [hist EXCEPT
       !.head_true = IF driving_mode = HEAD /\ motion_detected THEN @ + 1 ELSE @,
       !.head_false = IF driving_mode = HEAD /\ ~motion_detected THEN @ + 1 ELSE @]
  /\ UNCHANGED <<net, shared, log_messages, cap, published, console, mode_arg,
                 old_mode, msg, status, ops>>

\* handle_driving_mode, line 143; then waitKey and sleep(0.033)
H1Log ==
  /\ pc["det"] = "h1_log"
  /\ LogEvent("Mode 1: Object detected, brake lights ON, warning sent")
  /\ Goto("det", "loop")
  /\ UNCHANGED <<net, shared, cap, published, ret, mode_arg, old_mode, desc, msg,
                 status, ops, hist>>

\* faulty variant: a MEMBER releases its brake on a false sample of its own
HdmMember_Actuates ==
  /\ pc["det"] = "hdm2"
  /\ IF driving_mode = MEMBER /\ ~motion_detected
       THEN Goto("det", "off_chk") /\ ret' = [ret EXCEPT !["det"] = <<"loop">>]
       ELSE Goto("det", "loop") /\ ret' = ret
  /\ UNCHANGED <<net, shared, log_messages, cap, published, console, mode_arg,
                 old_mode, desc, msg, status, ops, hist>>

\* handle_driving_mode, lines 147-149: `elif self.driving_mode == 2: pass`
HdmMember ==
  /\ pc["det"] = "hdm2"
  /\ Goto("det", "loop")
  /\ UNCHANGED <<net, shared, log_messages, cap, published, console, ret, mode_arg,
                 old_mode, desc, msg, status, ops, hist>>

\* ------------------------------------------------------------ send_heartbeat
\* send_heartbeat, line 165: `while self.running`
HbLoop ==
  /\ pc["hb"] = "loop"
  /\ IF running
       THEN /\ ops < MaxOps
            /\ ops' = ops + 1
            /\ Goto("hb", "hb_chk")
       ELSE /\ ops' = ops
            /\ Goto("hb", "done")
  /\ UNCHANGED <<net, shared, log_messages, cap, published, console, ret, mode_arg,
                 old_mode, desc, msg, status, hist>>

\* faulty variant: only the head of the convoy sends heartbeats
HbCheck_HeadOnly ==
  /\ pc["hb"] = "hb_chk"
  /\ IF driving_mode = HEAD
       THEN Goto("hb", "hb_pub")
       ELSE Goto("hb", "loop")
  /\ hist' = [hist EXCEPT !.hb_found = IF driving_mode = SINGLE THEN @ ELSE @ + 1]
  /\ UNCHANGED <<net, shared, log_messages, cap, published, console, ret, mode_arg,
                 old_mode, desc, msg, status, ops>>

\* send_heartbeat, line 166: `if self.driving_mode in [1, 2]`, else sleep(1.0)
HbCheck ==
  /\ pc["hb"] = "hb_chk"
  /\ IF driving_mode \in {HEAD, MEMBER}
       THEN Goto("hb", "hb_pub")
       ELSE Goto("hb", "loop")
  /\ hist' = [hist EXCEPT !.hb_found = IF driving_mode = SINGLE THEN @ ELSE @ + 1]
  /\ UNCHANGED <<net, shared, log_messages, cap, published, console, ret, mode_arg,
                 old_mode, desc, msg, status, ops>>

\* send_heartbeat, lines 167-172: build heartbeat_t, publish on "HEARTBEAT"
HbPublish ==
  /\ pc["hb"] = "hb_pub"
  /\ published' = Sent(published, HeartbeatMsg(VEHICLE_ID))
  /\ Goto("hb", "hb_log")
  /\ UNCHANGED <<net, shared, log_messages, cap, console, ret, mode_arg, old_mode,
                 desc, msg, status, ops, hist>>

\* send_heartbeat, lines 173-175: log the heartbeat, sleep(1.0)
HbLog ==
  /\ pc["hb"] = "hb_log"
  /\ LogEvent("Heartbeat sent from vehicle " \o ToString(VEHICLE_ID))
  /\ Goto("hb", "loop")
  /\ UNCHANGED <<net, shared, cap, published, ret, mode_arg, old_mode, desc, msg,
                 status, ops, hist>>

\* --------------------------------------------------------- _lcm_handler_loop
\* _lcm_handler_loop, line 248: `while self.running`
LcmLoop ==
  /\ pc["lcm"] = "loop"
  /\ IF running
       THEN /\ ops < MaxOps
            /\ ops' = ops + 1
            /\ Goto("lcm", "pump")
       ELSE /\ ops' = ops
            /\ Goto("lcm", "done")
  /\ UNCHANGED <<net, shared, log_messages, cap, published, console, ret, mode_arg,
                 old_mode, desc, msg, status, hist>>

\* _lcm_handler_loop, line 251: self.lcm.handle_timeout(100) times out, raises,
\* or hands one message to the handler subscribed to its channel
LcmPump ==
  /\ pc["lcm"] = "pump"
  /\ \/ Goto("lcm", "loop") /\ msg' = msg
     \/ Goto("lcm", "lcm_exc") /\ msg' = msg
     \/ \E m \in InboundMsgs :
          /\ msg' = m
          /\ Goto("lcm", IF m.channel = "WARNING" THEN "on_warning" ELSE "on_mode")
  /\ UNCHANGED <<net, shared, log_messages, cap, published, console, ret, mode_arg,
                 old_mode, desc, status, ops, hist>>

\* _lcm_handler_loop, lines 252-254: `if self.running: log_event(...)`
LcmError ==
  /\ pc["lcm"] = "lcm_exc"
  /\ IF running
       THEN LogEvent("LCM handler error")
       ELSE UNCHANGED <<log_messages, console>>
  /\ Goto("lcm", "loop")
  /\ UNCHANGED <<net, shared, cap, published, ret, mode_arg, old_mode, desc, msg,
                 status, ops, hist>>

\* faulty variant: the self-id filter is missing
OnWarning_NoFilter ==
  /\ pc["lcm"] = "on_warning"
  /\ IF ~msg.ok
       THEN /\ LogEvent("Error handling warning message")
            /\ Goto("lcm", "loop")
            /\ msg' = NoMsg
       ELSE /\ LogEvent("Received warning from vehicle "
                          \o ToString(msg.vehicle_id) \o ": " \o msg.description)
            /\ Goto("lcm", "w_mode")
            /\ msg' = msg
  /\ hist' = [hist EXCEPT !.dropped =
                IF msg.ok /\ msg.vehicle_id = VEHICLE_ID THEN @ + 1 ELSE @]
  /\ UNCHANGED <<net, shared, cap, published, ret, mode_arg, old_mode, desc, status,
                 ops>>

\* _handle_warning_message, lines 198-202 and 205-206: decode, the self-id
\* filter, the receipt log; a decode error is logged
OnWarning ==
  /\ pc["lcm"] = "on_warning"
  /\ IF ~msg.ok
       THEN /\ LogEvent("Error handling warning message")
            /\ Goto("lcm", "loop")
            /\ msg' = NoMsg
       ELSE IF msg.vehicle_id # VEHICLE_ID
              THEN /\ LogEvent("Received warning from vehicle "
                                 \o ToString(msg.vehicle_id) \o ": " \o msg.description)
                   /\ Goto("lcm", "w_mode")
                   /\ msg' = msg
              ELSE /\ UNCHANGED <<log_messages, console>>
                   /\ Goto("lcm", "loop")
                   /\ msg' = NoMsg
  /\ hist' = [hist EXCEPT !.dropped =
                IF msg.ok /\ msg.vehicle_id = VEHICLE_ID THEN @ + 1 ELSE @]
  /\ UNCHANGED <<net, shared, cap, published, ret, mode_arg, old_mode, desc, status,
                 ops>>

\* _handle_warning_message, lines 203-204: `if self.driving_mode == 2`
OnWarningMode ==
  /\ pc["lcm"] = "w_mode"
  /\ IF driving_mode = MEMBER
       THEN Goto("lcm", "hwm") /\ msg' = msg
       ELSE Goto("lcm", "loop") /\ msg' = NoMsg
  /\ UNCHANGED <<net, shared, log_messages, cap, published, console, ret, mode_arg,
                 old_mode, desc, status, ops, hist>>

\* faulty variant: a warning is relayed only when it newly turns the brake on
HandleWarning_OnlyOnEdge ==
  /\ pc["lcm"] = "hwm"
  /\ IF driving_mode = MEMBER
       THEN /\ Goto("lcm", "on_chk")
            /\ ret' = [ret EXCEPT !["lcm"] =
                         IF brake_lights_on THEN <<"hwm_log">>
                         ELSE <<"swm_pub", "hwm_log">>]
            /\ desc' = [desc EXCEPT !["lcm"] = "Warning relayed"]
            /\ msg' = msg
       ELSE /\ Goto("lcm", "loop")
            /\ msg' = NoMsg
            /\ UNCHANGED <<ret, desc>>
  /\ hist' = [hist EXCEPT !.relay_accepted =
                IF driving_mode = MEMBER THEN @ + 1 ELSE @]
  /\ UNCHANGED <<net, shared, log_messages, cap, published, console, mode_arg,
                 old_mode, status, ops>>

\* handle_warning_message, lines 190-193: the second test of the mode, then
\* turn_on_brake_lights() and send_warning_message(timestamp, "Warning relayed")
HandleWarning ==
  /\ pc["lcm"] = "hwm"
  /\ IF driving_mode = MEMBER
       THEN /\ Goto("lcm", "on_chk")
            /\ ret' = [ret EXCEPT !["lcm"] = <<"swm_pub", "hwm_log">>]
            /\ desc' = [desc EXCEPT !["lcm"] = "Warning relayed"]
            /\ msg' = msg
       ELSE /\ Goto("lcm", "loop")
            /\ msg' = NoMsg
            /\ UNCHANGED <<ret, desc>>
  /\ hist' = [hist EXCEPT !.relay_accepted =
                IF driving_mode = MEMBER THEN @ + 1 ELSE @]
  /\ UNCHANGED <<net, shared, log_messages, cap, published, console, mode_arg,
                 old_mode, status, ops>>

\* handle_warning_message, line 194
HwmLog ==
  /\ pc["lcm"] = "hwm_log"
  /\ LogEvent("Warning received and repeated")
  /\ Goto("lcm", "loop")
  /\ msg' = NoMsg
  /\ UNCHANGED <<net, shared, cap, published, ret, mode_arg, old_mode, desc, status,
                 ops, hist>>

\* faulty variant: a decode error is not caught and ends the dispatcher thread
OnMode_DecodeFatal ==
  /\ pc["lcm"] = "on_mode"
  /\ IF ~msg.ok
       THEN UNCHANGED <<log_messages, console>> /\ Goto("lcm", "done")
       ELSE /\ Goto("lcm", "loop")
            /\ IF msg.vehicle_id # VEHICLE_ID
                 THEN LogEvent("Vehicle " \o ToString(msg.vehicle_id)
                                 \o " changed mode to " \o ToString(msg.mode)
                                 \o ": " \o msg.description)
                 ELSE UNCHANGED <<log_messages, console>>
  /\ msg' = NoMsg
  /\ hist' = [hist EXCEPT !.dropped =
                IF msg.ok /\ msg.vehicle_id = VEHICLE_ID THEN @ + 1 ELSE @]
  /\ UNCHANGED <<net, shared, cap, published, ret, mode_arg, old_mode, desc, status,
                 ops>>

\* _handle_mode_message, lines 210-215: decode, the self-id filter, the
\* informational log; a decode error is logged
OnMode ==
  /\ pc["lcm"] = "on_mode"
  /\ IF ~msg.ok
       THEN LogEvent("Error handling mode message")
       ELSE IF msg.vehicle_id # VEHICLE_ID
              THEN LogEvent("Vehicle " \o ToString(msg.vehicle_id)
                              \o " changed mode to " \o ToString(msg.mode)
                              \o ": " \o msg.description)
              ELSE UNCHANGED <<log_messages, console>>
  /\ Goto("lcm", "loop")
  /\ msg' = NoMsg
  /\ hist' = [hist EXCEPT !.dropped =
                IF msg.ok /\ msg.vehicle_id = VEHICLE_ID THEN @ + 1 ELSE @]
  /\ UNCHANGED <<net, shared, cap, published, ret, mode_arg, old_mode, desc, status,
                 ops>>

\* ------------------------------------------------------- the command surface
\* faulty variant: the window is taken from the front of the list (s[:n])
Recent_Oldest(s, n) == SubSeq(s, 1, IF Len(s) > n THEN n ELSE Len(s))

\* s[-n:] of a Python list
Recent(s, n) ==
  IF n = 0 THEN s
  ELSE SubSeq(s, IF Len(s) > n THEN Len(s) - n + 1 ELSE 1, Len(s))

\* show_logs, lines 333-336: the header, then self.log_messages[-10:] line by
\* line (the closing empty line is left out)
ShowLogsOutput ==
  PrintedAll(Printed(console, "=== Recent Logs ==="), Recent(log_messages, LogWindow))

\* show_status, lines 321-329
StatusLine ==
  "Driving Mode: " \o ToString(driving_mode) \o " (" \o mode_names[driving_mode + 1]
    \o ") Motion Detected: " \o ToString(motion_detected)
    \o " Brake Lights: " \o (IF brake_lights_on THEN "ON" ELSE "OFF")
    \o " System Running: " \o ToString(running)

\* start(), lines 298-314: the command loop reads one console line
CmdLoop ==
  /\ pc["cmd"] = "cmd_loop"
  /\ IF ~running
       THEN /\ Goto("cmd", "stop")
            /\ UNCHANGED <<console, ret, mode_arg, desc, ops, hist>>
       ELSE \E c \in Commands :
              /\ c # "q" => ops < MaxOps
              /\ ops' = IF c = "q" THEN ops ELSE ops + 1
              /\ hist' = IF c = "st"
                           THEN [hist EXCEPT !.seen = {<<driving_mode, motion_detected,
                                                         brake_lights_on, running>>}]
                           ELSE hist
              /\ CASE c = "q" ->
                        /\ Goto("cmd", "stop")
                        /\ UNCHANGED <<console, ret, mode_arg, desc>>
                   [] c \in {"0", "1", "2"} ->
                        /\ mode_arg' = (CASE c = "0" -> 0 [] c = "1" -> 1 [] c = "2" -> 2)
                        /\ Goto("cmd", "sdm")
                        /\ ret' = [ret EXCEPT !["cmd"] = <<"cmd_loop">>]
                        /\ UNCHANGED <<console, desc>>
                   [] c = "s" ->
                        /\ console' = Printed(Printed(console, "=== Status ==="),
                                               StatusLine)
                        /\ UNCHANGED <<pc, ret, mode_arg, desc>>
                   [] c = "l" ->
                        /\ console' = ShowLogsOutput
                        /\ UNCHANGED <<pc, ret, mode_arg, desc>>
                   [] c = "st" ->
                        /\ Goto("cmd", "st_motion")
                        /\ UNCHANGED <<console, ret, mode_arg, desc>>
                   [] c = "w" ->
                        /\ Goto("cmd", "swm_pub")
                        /\ ret' = [ret EXCEPT !["cmd"] = <<"cmd_loop">>]
                        /\ desc' = [desc EXCEPT !["cmd"] = "Manual test warning"]
                        /\ UNCHANGED <<console, mode_arg>>
                   [] c = "x" ->
                        UNCHANGED <<pc, console, ret, mode_arg, desc>>
  /\ UNCHANGED <<net, shared, log_messages, cap, published, old_mode, msg, status>>

\* send_status_message, lines 261-262: read driving_mode and motion_detected
StatusReadMotion ==
  /\ pc["cmd"] = "st_motion"
  /\ status' = [status EXCEPT !.driving_mode = driving_mode,
                              !.motion_detected = motion_detected]
  /\ Goto("cmd", "st_brake")
  /\ UNCHANGED <<net, shared, log_messages, cap, published, console, ret, mode_arg,
                 old_mode, desc, msg, ops, hist>>

\* send_status_message, line 263: read brake_lights_on
StatusReadBrake ==
  /\ pc["cmd"] = "st_brake"
  /\ status' = [status EXCEPT !.brake_lights_on = brake_lights_on]
  /\ Goto("cmd", "st_pub")
  /\ UNCHANGED <<net, shared, log_messages, cap, published, console, ret, mode_arg,
                 old_mode, desc, msg, ops, hist>>

\* send_status_message, lines 264-267: read running, publish on "STATUS"
StatusPublish ==
  /\ pc["cmd"] = "st_pub"
  /\ published' = Sent(published, StatusMsg(VEHICLE_ID, status.driving_mode, status.motion_detected,
                 status.brake_lights_on, running))
  /\ Goto("cmd", "st_log")
  /\ hist' = [hist EXCEPT !.seen = {}]
  /\ UNCHANGED <<net, shared, log_messages, cap, console, ret, mode_arg, old_mode,
                 desc, msg, status, ops>>

\* send_status_message, line 268
StatusLog ==
  /\ pc["cmd"] = "st_log"
  /\ LogEvent("Status message sent from vehicle " \o ToString(VEHICLE_ID))
  /\ Goto("cmd", "cmd_loop")
  /\ status' = NoStatus
  /\ UNCHANGED <<net, shared, cap, published, ret, mode_arg, old_mode, desc, msg,
                 ops, hist>>

\* ------------------------------------------------------------------- stop
\* stop(), line 340: self.running = False
Stop ==
  /\ pc["cmd"] = "stop"
  /\ running' = FALSE
  /\ Goto("cmd", "join_det")
  /\ UNCHANGED <<net, driving_mode, motion_detected, brake_lights_on, log_messages,
                 cap, published, console, ret, mode_arg, old_mode, desc, msg,
                 status, ops, hist>>

\* faulty variant: join gives up at once (as with a timeout) instead of waiting
Join_NoWait(t, here, next) ==
  /\ pc["cmd"] = here
  /\ Goto("cmd", next)
  /\ UNCHANGED <<net, shared, log_messages, cap, published, console, ret, mode_arg,
                 old_mode, desc, msg, status, ops, hist>>

\* stop(), lines 342-349: `if thread and thread.is_alive(): thread.join()`
\* goes on once the thread does not exist or has ended
Join(t, here, next) ==
  /\ pc["cmd"] = here
  /\ ~IsAlive(t)
  /\ Goto("cmd", next)
  /\ UNCHANGED <<net, shared, log_messages, cap, published, console, ret, mode_arg,
                 old_mode, desc, msg, status, ops, hist>>

JoinDetection == Join("det", "join_det", "join_hb")
JoinHeartbeat == Join("hb", "join_hb", "join_lcm")
JoinLcm == Join("lcm", "join_lcm", "release")

\* stop(), lines 351-355: `if self.cap: self.cap.release()`, the final print
Release ==
  /\ pc["cmd"] = "release"
  /\ cap' = IF cap = "none" THEN cap ELSE "released"
  /\ console' = Printed(console, "Motion detection system stopped")
  /\ Goto("cmd", "exit")
  /\ UNCHANGED <<net, shared, log_messages, published, ret, mode_arg, old_mode, desc,
                 msg, status, ops, hist>>

\* ------------------------------------------------------------ specification
CmdNext ==
  \/ Main \/ SetDrivingMode \/ SdmPublish \/ SdmLog
  \/ Start \/ StartDetection \/ StartHeartbeat \/ StartLcm
  \/ CmdLoop \/ SwmPublish("cmd") \/ SwmLog("cmd")
  \/ StatusReadMotion \/ StatusReadBrake \/ StatusPublish \/ StatusLog
  \/ Stop \/ JoinDetection \/ JoinHeartbeat \/ JoinLcm \/ Release

DetNext ==
  \/ DetLoop \/ DetRead \/ HdmSingle \/ HdmHead \/ HdmMember
  \/ TurnOnCheck("det") \/ TurnOnSet("det") \/ TurnOffCheck \/ TurnOffSet
  \/ SwmPublish("det") \/ SwmLog("det") \/ H0Log \/ H1Log

HbNext == HbLoop \/ HbCheck \/ HbPublish \/ HbLog

LcmNext ==
  \/ LcmLoop \/ LcmPump \/ LcmError \/ OnWarning \/ OnWarningMode
  \/ HandleWarning \/ TurnOnCheck("lcm") \/ TurnOnSet("lcm")
  \/ SwmPublish("lcm") \/ SwmLog("lcm") \/ HwmLog \/ OnMode

Next == CmdNext \/ DetNext \/ HbNext \/ LcmNext

Spec == Init /\ [][Next]_vars

\* stop(): once it has started, the controlling thread runs it to its end
StopNext == Stop \/ JoinDetection \/ JoinHeartbeat \/ JoinLcm \/ Release

\* The interpreter never idles while a thread can run: once the running flag
\* is clear, as long as a background loop or stop() can take its next step,
\* one of them does (cap.read, sleep, handle_timeout(100) and join of an ended
\* thread return). Nothing is assumed while the flag is set, and console input
\* is never forced. Every loop iteration uses up one of the MaxOps, so no
\* thread can take steps for ever and this is no weaker here than fairness
\* per thread.
FairSpec == Spec /\ WF_vars(~running /\ (StopNext \/ DetNext \/ HbNext \/ LcmNext))

\* --------------------------------------------------------- the Event Log alone
\* messages log_event is called with (lines 135 and 173)
LogEntries ==
  {"Mode 0: Object detected, brake lights ON",
   "Heartbeat sent from vehicle " \o ToString(VEHICLE_ID)}

\* log_event(message), lines 238-243, called with any of LogEntries
LogEventCall ==
  /\ Len(log_messages) < MaxLog
  /\ \E e \in LogEntries : LogEvent(e)
  /\ UNCHANGED <<net, shared, cap, published, pc, ret, mode_arg, old_mode, desc, msg,
                 status, ops, hist>>

\* show_logs(), lines 331-336
ShowLogs ==
  /\ ops < MaxShows
  /\ ops' = ops + 1
  /\ console' = ShowLogsOutput
  /\ UNCHANGED <<net, shared, log_messages, cap, published, pc, ret, mode_arg,
                 old_mode, desc, msg, status, hist>>

LogNext == LogEventCall \/ ShowLogs

\* the Event Log of a fresh object under any sequence of log_event and
\* show_logs calls, up to MaxLog entries (more than the window of show_logs)
LogSpec == Init /\ [][LogNext]_vars

\* ------------------------------------------------- two vehicles, one domain
\* NetSpec follows the WARNING traffic between the MotionDetector processes
\* of Vehicles, which share one multicast group. net holds, per vehicle v,
\*   mode[v], brake[v]   its driving_mode and brake_lights_on
\*   inbox[v]            the WARNING datagrams its socket has received and
\*                       handle_timeout has not yet dispatched, oldest first
\*   pc[v]               "main" before main() has set the mode and started
\*                       the threads, "run" afterwards
\* and originated, the number of warnings originated so far. The modes are
\* set once, before any warning is originated, so a handler invocation runs
\* as one step. MODE, HEARTBEAT and STATUS traffic and the Event Log are
\* left out.

\* lcm.publish("WARNING", ...) on the multicast group: every subscribed
\* process, the sender included, receives the datagram
Broadcast(inbox, m) == [v \in Vehicles |-> Append(inbox[v], m)]

\* main(): detector.set_driving_mode(args.mode); detector.start()
NetMain(v) ==
  /\ net.pc[v] = "main"
  /\ \E m \in ValidModes :
       net' = [net EXCEPT !.mode[v] = m, !.pc[v] = "run"]
  /\ UNCHANGED object

\* command 'w': send_warning_message(time.time(), "Manual test warning")
NetInject(v) ==
  /\ \A w \in Vehicles : net.pc[w] = "run"
  /\ net.originated < MaxWarnings
  /\ net' = [net EXCEPT
               !.inbox = Broadcast(@, WarningMsg(v, "Manual test warning")),
               !.originated = @ + 1]
  /\ UNCHANGED object

\* handle_driving_mode, lines 139-143, for a true sample in HEAD mode:
\* turn_on_brake_lights(), send_warning_message(current_time)
NetSense(v) ==
  /\ \A w \in Vehicles : net.pc[w] = "run"
  /\ net.originated < MaxWarnings
  /\ net.mode[v] = HEAD
  /\ net' = [net EXCEPT
               !.brake[v] = TRUE,
               !.inbox = Broadcast(@, WarningMsg(v, "Motion detected")),
               !.originated = @ + 1]
  /\ UNCHANGED object

\* _handle_warning_message and handle_warning_message for the oldest datagram
\* of v: the self-id filter, the mode tests, turn_on_brake_lights() and
\* send_warning_message(timestamp, "Warning relayed")
NetDeliver(v) ==
  /\ net.pc[v] = "run"
  /\ net.inbox[v] # <<>>
  /\ LET m == Head(net.inbox[v])
         rest == [net.inbox EXCEPT ![v] = Tail(@)]
     IN IF m.vehicle_id # v /\ net.mode[v] = MEMBER
          THEN net' = [net EXCEPT
                         !.brake[v] = TRUE,
                         !.inbox = Broadcast(rest, WarningMsg(v, "Warning relayed"))]
          ELSE net' = [net EXCEPT !.inbox = rest]
  /\ UNCHANGED object

NetNext == \E v \in Vehicles : NetMain(v) \/ NetInject(v) \/ NetSense(v) \/ NetDeliver(v)

NetSpec == Init /\ [][NetNext]_vars

\* the dispatcher thread of every vehicle keeps pumping handle_timeout(100)
FairNetSpec == NetSpec /\ \A v \in Vehicles : WF_vars(NetDeliver(v))

\* ---------------------------------------------------------------- properties
\* copies of messages of one channel on the transport
OnChannel(c) == {m \in BagToSet(published) : m.channel = c}

RECURSIVE SumCopies(_)
SumCopies(ms) ==
  IF ms = {} THEN 0
  ELSE LET m == CHOOSE x \in ms : TRUE
       IN CopiesIn(m, published) + SumCopies(ms \ {m})

IsModeChanged(e) == \E o \in ValidModes, m \in ValidModes : e = ModeChangedEntry(o, m)

\* C1: every call set_driving_mode(m) with m in {0,1,2}, whatever the mode was
\* before (m itself included), leaves driving_mode = m and publishes exactly
\* one MODE message with the local vehicle_id, mode = m and the description of
\* the fixed table; the mode is written before the publish and the publish is
\* made before the transition is logged.
C1_SetModePublishesOnce ==
  /\ driving_mode = hist.last_valid
  /\ SumCopies(OnChannel("MODE"))
       = hist.sdm_valid - (IF pc["cmd"] = "sdm_pub" THEN 1 ELSE 0)
  /\ Count(log_messages, IsModeChanged)
       = hist.sdm_valid - (IF pc["cmd"] \in {"sdm_pub", "sdm_log"} THEN 1 ELSE 0)
  /\ \A m \in OnChannel("MODE") :
       /\ m.vehicle_id = VEHICLE_ID
       /\ \/ m.mode = 0 /\ m.description = "Single Vehicle"
          \/ m.mode = 1 /\ m.description = "Head in Convoy"
          \/ m.mode = 2 /\ m.description = "In Convoy"
  /\ pc["cmd"] \in {"sdm_pub", "sdm_log"} => driving_mode = mode_arg
  /\ pc["cmd"] = "sdm_log" => CopiesIn(ModeMsg(VEHICLE_ID, mode_arg), published) >= 1

\* set_driving_mode(HEAD) has returned twice, the second time with the mode
\* already HEAD: two MODE messages for HEAD are out
C1_Witness ==
  /\ pc["cmd"] = "cmd_loop"
  /\ driving_mode = HEAD
  /\ hist.sdm_valid = 2
  /\ CopiesIn(ModeMsg(VEHICLE_ID, HEAD), published) = 2

\* C2: set_driving_mode called with a value outside {0,1,2} is rejected: the
\* call changes neither the mode, the motion flag, the brake state, the running
\* flag nor the Event Log, and publishes no MODE message (nor anything else).
C2_InvalidModeRejected ==
  [][(pc["cmd"] = "sdm" /\ mode_arg \notin {0, 1, 2} /\ pc'["cmd"] # "sdm")
       => /\ UNCHANGED <<driving_mode, motion_detected, brake_lights_on, running,
                         log_messages, published>>
          /\ pc'["cmd"] \notin {"sdm_pub", "sdm_log"}]_vars

\* set_driving_mode(-1) or set_driving_mode(3) has returned
C2_Witness ==
  /\ pc["cmd"] = "start"
  /\ CopiesIn("Invalid driving mode", console) = 1
  /\ hist.sdm_valid = 0
  /\ published = EmptyBag
  /\ log_messages = <<>>

\* C3: no HEARTBEAT is published at an instant when the driving mode is
\* SINGLE: at every publish on "HEARTBEAT" the current mode is HEAD or MEMBER,
\* under every interleaving with set_driving_mode.
C3_NoHeartbeatInSingle ==
  [][(pc["hb"] = "hb_pub" /\ pc'["hb"] = "hb_log")
       => driving_mode \in {HEAD, MEMBER}]_vars

\* entries of the Event Log that report the brake going on / going off
IsBrakeOnEntry(e) ==
  e \in {"BRAKE LIGHTS ON", "Mode 0: Object detected, brake lights ON"}

IsBrakeOffEntry(e) == e = "BRAKE LIGHTS OFF"

IsObjectDetected(e) == e = "Mode 0: Object detected, brake lights ON"

\* the sensing thread is between two samples
DetIdle == pc["det"] \in {"loop", "done"}

Relayed == WarningMsg(VEHICLE_ID, "Warning relayed")

\* the dispatcher has accepted a warning for relay and not yet published it
RelayPending == pc["lcm"] \in {"on_chk", "on_set", "swm_pub"}

\* C5: in MEMBER mode every WARNING received from another vehicle turns the
\* brake on and is answered by exactly one published WARNING with the local
\* vehicle_id, danger_detected = TRUE and description "Warning relayed"; the
\* relayed warnings published always number the foreign warnings accepted while
\* MEMBER (less the one being relayed right now).
C5_MemberRelaysOnce ==
  /\ [](/\ CopiesIn(Relayed, published)
            = hist.relay_accepted - (IF RelayPending THEN 1 ELSE 0)
        /\ \A m \in OnChannel("WARNING") :
             m.description = "Warning relayed"
               => m.vehicle_id = VEHICLE_ID /\ m.danger_detected)
  /\ [][/\ (pc["lcm"] = "on_warning" /\ pc'["lcm"] # "on_warning"
             /\ msg.ok /\ msg.vehicle_id # VEHICLE_ID)
            => pc'["lcm"] = "w_mode"
        /\ (pc["lcm"] = "w_mode" /\ pc'["lcm"] # "w_mode" /\ driving_mode = MEMBER)
            => pc'["lcm"] = "hwm"
        /\ (pc["lcm"] = "hwm" /\ pc'["lcm"] # "hwm" /\ driving_mode = MEMBER)
            => pc'["lcm"] = "on_chk" /\ hist'.relay_accepted = hist.relay_accepted + 1
        /\ (pc["lcm"] \in {"on_chk", "on_set"} /\ pc'["lcm"] = "swm_pub")
            => brake_lights_on'
        /\ (pc["lcm"] = "swm_pub" /\ pc'["lcm"] # "swm_pub")
            => /\ published' = Sent(published, Relayed)
               /\ pc'["lcm"] = "swm_log"]_vars

\* a MEMBER has relayed two foreign warnings, the second with the brake
\* already on
C5_Witness ==
  /\ driving_mode = MEMBER
  /\ brake_lights_on
  /\ pc["lcm"] = "loop"
  /\ hist.relay_accepted = 2
  /\ CopiesIn(Relayed, published) = 2

\* C6: in every mode a decoded inbound WARNING or MODE message whose
\* vehicle_id is the local one is dropped: the handler changes neither the
\* mode, the motion flag, the brake state and the running flag, nor the Event
\* Log, publishes nothing and returns to the dispatch loop.
C6_SelfMessagesDropped ==
  [][(pc["lcm"] \in {"on_warning", "on_mode"} /\ pc'["lcm"] # pc["lcm"]
        /\ msg.ok /\ msg.vehicle_id = VEHICLE_ID)
       => /\ UNCHANGED <<driving_mode, motion_detected, brake_lights_on, running,
                         log_messages, published, console>>
          /\ pc'["lcm"] = "loop"]_vars

\* a MEMBER has dropped two messages of its own; brake off, nothing relayed
C6_Witness ==
  /\ hist.dropped = 2
  /\ driving_mode = MEMBER
  /\ pc["lcm"] = "loop"
  /\ ~brake_lights_on
  /\ OnChannel("WARNING") = {}
  /\ Len(log_messages) = 1

Detected == WarningMsg(VEHICLE_ID, "Motion detected")

\* the sensing thread is on the HEAD branch with a true sample and has not
\* yet published its warning
HeadWarningPending ==
  \/ pc["det"] \in {"on_chk", "on_set"} /\ ret["det"] = <<"swm_pub", "h1_log">>
  \/ pc["det"] = "swm_pub"

\* C7: in HEAD mode every processed sample that is true turns the brake on and
\* publishes exactly one WARNING with the local vehicle_id, danger_detected =
\* TRUE and description "Motion detected"; every processed sample that is
\* false turns the brake off and publishes no WARNING.
C7_HeadWarnsPerTrueSample ==
  /\ [](/\ CopiesIn(Detected, published)
            = hist.head_true - (IF HeadWarningPending THEN 1 ELSE 0)
        /\ \A m \in OnChannel("WARNING") :
             m.description = "Motion detected"
               => m.vehicle_id = VEHICLE_ID /\ m.danger_detected)
  /\ [][/\ (pc["det"] = "hdm1" /\ pc'["det"] # "hdm1" /\ driving_mode = HEAD)
            => IF motion_detected
                 THEN pc'["det"] = "on_chk" /\ ret'["det"] = <<"swm_pub", "h1_log">>
                 ELSE pc'["det"] = "off_chk" /\ ret'["det"] = <<"loop">>
        /\ (pc["det"] \in {"on_chk", "on_set"} /\ pc'["det"] \notin {"on_chk", "on_set"})
            => brake_lights_on'
        /\ (pc["det"] \in {"off_chk", "off_set"}
              /\ pc'["det"] \notin {"off_chk", "off_set"})
            => ~brake_lights_on' /\ pc'["det"] = "loop" /\ published' = published
        /\ (pc["det"] = "swm_pub" /\ pc'["det"] # "swm_pub")
            => published' = Sent(published, Detected)]_vars

\* HEAD has processed a true sample and then a false one: one warning out,
\* brake off again
C7_Witness ==
  /\ driving_mode = HEAD
  /\ hist.head_true = 1
  /\ hist.head_false = 1
  /\ DetIdle
  /\ ~brake_lights_on
  /\ hist.falls = 1
  /\ CopiesIn(Detected, published) = 1

\* C8: while the driving mode is MEMBER the sensing loop never changes the
\* brake state: every change of brake_lights_on made at an instant when the
\* mode is MEMBER is made by the dispatcher handling a received WARNING.
C8_MemberBrakeOnlyByWarning ==
  [][(brake_lights_on' # brake_lights_on /\ driving_mode = MEMBER)
       => pc'["lcm"] # pc["lcm"]]_vars

IsHeartbeatSent(e) == e = "Heartbeat sent from vehicle " \o ToString(VEHICLE_ID)

\* C9: every heartbeat tick that finds the mode HEAD or MEMBER publishes
\* exactly one HEARTBEAT carrying the local vehicle_id and appends exactly one
\* log entry, and every tick that finds the mode SINGLE publishes and logs
\* nothing: k ticks in HEAD give k heartbeats, and a tick that starts after a
\* switch to SINGLE publishes none.
C9_HeartbeatPerTick ==
  /\ SumCopies(OnChannel("HEARTBEAT"))
       = hist.hb_found - (IF pc["hb"] = "hb_pub" THEN 1 ELSE 0)
  /\ Count(log_messages, IsHeartbeatSent)
       = hist.hb_found - (IF pc["hb"] \in {"hb_pub", "hb_log"} THEN 1 ELSE 0)
  /\ \A m \in OnChannel("HEARTBEAT") : m.vehicle_id = VEHICLE_ID

\* two ticks in HEAD mode have published two heartbeats
C9_Witness ==
  /\ driving_mode = HEAD
  /\ pc["hb"] = "loop"
  /\ hist.hb_found = 2
  /\ CopiesIn(HeartbeatMsg(VEHICLE_ID), published) = 2
  /\ Count(log_messages, IsHeartbeatSent) = 2

\* stop() has cleared the running flag and has not completed yet
StopPending == pc["cmd"] \in {"join_det", "join_hb", "join_lcm", "release"}

\* C10: once stop() has cleared the running flag, each background loop sees it
\* at its next loop test and ends, and stop() gets through its three joins and
\* completes: stop() does not stay pending for ever (it can only cease to be
\* pending by completing, and is entered once), the flag stays clear while it
\* is pending, and when it has completed the three loops have ended.
C10_ShutdownTerminates ==
  /\ <>[]~StopPending
  /\ [](StopPending => ~running)
  /\ [](pc["cmd"] = "exit" => \A t \in {"det", "hb", "lcm"} : ~IsAlive(t))

\* stop() has completed after all three loops ran and ended
C10_Witness ==
  /\ pc["cmd"] = "exit"
  /\ pc["det"] = "done" /\ pc["hb"] = "done" /\ pc["lcm"] = "done"
  /\ ops = MaxOps
  /\ cap = "released"

\* initialize_camera has raised: "Error: Cannot open camera ..." was printed
CameraFailed == CopiesIn("Error: Cannot open camera", console) > 0

\* C11: if the camera fails to initialize in start(), the system does not
\* start: the running flag is never true, none of the three background threads
\* is created or started, no sample is ever processed (no frame is read, the
\* motion flag and the brake stay as constructed, no WARNING goes out), and the
\* controlling thread goes straight into stop().
C11_CameraFailureNoStart ==
  CameraFailed
    => /\ ~running
       /\ \A t \in {"det", "hb", "lcm"} : pc[t] = "none"
       /\ ~motion_detected /\ ~brake_lights_on
       /\ OnChannel("WARNING") = {} /\ OnChannel("HEARTBEAT") = {}
       /\ pc["cmd"] \in {"stop", "join_det", "join_hb", "join_lcm", "release", "exit"}
       /\ ops = 0

\* the camera did not open and stop() has run to its end: nothing was started
C11_Witness ==
  /\ CameraFailed
  /\ pc["cmd"] = "exit"
  /\ driving_mode = HEAD
  /\ cap = "released"
  /\ \A t \in {"det", "hb", "lcm"} : pc[t] = "none"

\* C12: send_status_message publishes a consistent snapshot: the driving_mode,
\* motion_detected, brake_lights_on and system_running values of the STATUS
\* message it publishes are values the object held together at one instant
\* between the start of the call and the publish, whatever the sensing loop
\* and the dispatcher do meanwhile; and no step of the call changes any of the
\* four fields.
C12_StatusSnapshotConsistent ==
  [][/\ (pc["cmd"] = "st_pub" /\ pc'["cmd"] = "st_log")
         => \E v \in hist.seen :
              published' = Sent(published,
                                StatusMsg(VEHICLE_ID, v[1], v[2], v[3], v[4]))
     /\ (pc["cmd"] \in {"st_motion", "st_brake", "st_pub", "st_log"}
           /\ pc'["cmd"] # pc["cmd"])
         => UNCHANGED <<driving_mode, motion_detected, brake_lights_on, running>>]_vars

\* the last Min(n, Len(s)) entries of s, oldest first
WindowOf(s, n) ==
  LET k == IF n < Len(s) THEN n ELSE Len(s)
  IN [i \in 1 .. k |-> s[Len(s) - k + i]]

\* C13: the Event Log is append-only (every step keeps the entries it holds,
\* in place, and log_event adds its entry at the end), and the recent-entries
\* query for the last n entries, n >= 1 (n = 10 in show_logs), returns
\* min(n, log size) entries, which are exactly the last entries appended,
\* oldest of the window first, also when n exceeds the log size; show_logs
\* prints its header and that window for n = 10.
C13_RecentWindow ==
  /\ [](\A n \in 1 .. MaxLog + 1 :
          /\ Len(Recent(log_messages, n))
               = (IF n < Len(log_messages) THEN n ELSE Len(log_messages))
          /\ Recent(log_messages, n) = WindowOf(log_messages, n))
  /\ [][/\ Len(log_messages') >= Len(log_messages)
        /\ SubSeq(log_messages', 1, Len(log_messages)) = log_messages
        /\ log_messages' # log_messages
             => /\ Len(log_messages') = Len(log_messages) + 1
                /\ log_messages'[Len(log_messages')] \in LogEntries
        /\ ops' # ops
             => console' = PrintedAll(Printed(console, "=== Recent Logs ==="),
                                      WindowOf(log_messages, LogWindow))]_vars

\* eleven entries were appended, the oldest a sensing entry and the ten after
\* it heartbeat entries, and show_logs then printed its window: the console
\* has the sensing entry once (from log_event) and the heartbeat entry twenty
\* times (ten from log_event, ten from show_logs)
C13_Witness ==
  /\ Len(log_messages) = LogWindow + 1
  /\ ops = 1
  /\ log_messages[1] = "Mode 0: Object detected, brake lights ON"
  /\ \A i \in 2 .. Len(log_messages) : log_messages[i] # log_messages[1]
  /\ CopiesIn("=== Recent Logs ===", console) = 1
  /\ CopiesIn(log_messages[1], console) = 1
  /\ CopiesIn(log_messages[2], console) = 2 * LogWindow

\* C14: an inbound WARNING or MODE message that does not decode is not fatal:
\* its handler appends exactly one error entry to the Event Log, leaves the
\* mode, the motion flag, the brake state and the running flag as they are,
\* publishes nothing, and returns to the dispatch loop, which stays alive and
\* hands the next inbound message to its handler as usual.
C14_MalformedNonFatal ==
  [][(pc["lcm"] \in {"on_warning", "on_mode"} /\ ~msg.ok /\ pc'["lcm"] # pc["lcm"])
       => /\ log_messages'
               = Append(log_messages,
                        IF pc["lcm"] = "on_warning"
                          THEN "Error handling warning message"
                          ELSE "Error handling mode message")
          /\ UNCHANGED <<driving_mode, motion_detected, brake_lights_on, running,
                         published>>
          /\ pc'["lcm"] = "loop"
          /\ IsAlive("lcm")']_vars

\* the dispatcher logged a MODE message that did not decode and then handled
\* a WARNING of another vehicle as usual
C14_Witness ==
  /\ pc["lcm"] = "loop"
  /\ Len(log_messages) >= 2
  /\ log_messages[Len(log_messages) - 1] = "Error handling mode message"
  /\ log_messages[Len(log_messages)]
       = "Received warning from vehicle " \o ToString(OTHER_ID) \o ": Motion detected"
  /\ OnChannel("WARNING") = {}

\* the mode has never been MEMBER: it is not MEMBER now, and no completed
\* set_driving_mode call has logged a change to MEMBER
NeverMember ==
  /\ driving_mode # MEMBER
  /\ \A i \in 1 .. Len(log_messages) :
       \A o \in ValidModes : log_messages[i] # ModeChangedEntry(o, MEMBER)

\* C15: each motion sample is handled under exactly one driving mode: when
\* handle_driving_mode ends the processing of a sample and the mode has been
\* SINGLE or HEAD all along (here: ever since construction), the brake matches
\* the sample, on for true and off for false, under every interleaving with
\* set_driving_mode; no sample is skipped because the mode tests saw
\* different modes.
C15_SampleHandledUnderOneMode ==
  [][(pc["det"] \in {"hdm0", "hdm1", "hdm2", "on_chk", "on_set", "off_chk",
                      "off_set", "swm_pub", "swm_log", "h0_log", "h1_log"}
        /\ pc'["det"] = "loop"
        /\ NeverMember')
       => brake_lights_on' = motion_detected']_vars

\* C16: a vehicle acts on inbound warnings only as a MEMBER: the dispatcher
\* logs a foreign WARNING as received in any mode, but every change it makes
\* to the brake state and every "Warning relayed" WARNING it publishes is made
\* at an instant when the current mode is MEMBER, under every interleaving
\* with set_driving_mode.
C16_ActOnWarningOnlyAsMember ==
  [][/\ (pc["lcm"] = "on_warning" /\ pc'["lcm"] # "on_warning"
           /\ msg.ok /\ msg.vehicle_id # VEHICLE_ID)
         => log_messages'
              = Append(log_messages, "Received warning from vehicle "
                         \o ToString(msg.vehicle_id) \o ": " \o msg.description)
     /\ (pc'["lcm"] # pc["lcm"]
           /\ (brake_lights_on' # brake_lights_on
                  \/ CopiesIn(Relayed, published') # CopiesIn(Relayed, published)))
         => driving_mode = MEMBER]_vars

\* no WARNING is in flight and no relay is pending
NetQuiet == \A v \in Vehicles : net.inbox[v] = <<>>

\* C17: relaying is single-hop and bounded in a convoy of two vehicles: with
\* two vehicles on one broadcast domain, in any fixed combination of modes
\* (both MEMBER included), after a WARNING is originated by HEAD sensing or by
\* the 'w' command only finitely many WARNING messages are published: the
\* system reaches a state from which on no WARNING is in flight and no relay
\* is pending.
C17_RelayBounded == <>[]NetQuiet

\* C18: the sensing path performs no messaging in SINGLE mode: no WARNING is
\* published by handle_driving_mode (through send_warning_message) at an
\* instant when the current driving mode is SINGLE, under every interleaving
\* of the sensing loop with set_driving_mode.
C18_NoSensingWarningInSingle ==
  [][(pc'["det"] # pc["det"]
        /\ \E d \in {"Motion detected", "Warning relayed", "Manual test warning"} :
             published' = Sent(published, WarningMsg(VEHICLE_ID, d)))
       => driving_mode # SINGLE]_vars

\* C19: shutdown ordering: stop() releases the camera only after it has
\* cleared the running flag and every background loop that was started
\* (sensing, heartbeat, inbound dispatch) has ended; once the camera is
\* released no background loop takes a step any more, so none reads the
\* sensor, publishes or writes state after the release.
C19_ReleaseAfterLoopsEnd ==
  /\ [](cap = "released"
          => /\ ~running
             /\ \A t \in {"det", "hb", "lcm"} : ~IsAlive(t)
             /\ pc["cmd"] = "exit")
  /\ [][/\ (cap' = "released" /\ cap # "released")
            => /\ pc["cmd"] = "release"
               /\ ~running
               /\ \A t \in {"det", "hb", "lcm"} : ~IsAlive(t)
        /\ cap = "released"
            => UNCHANGED <<driving_mode, motion_detected, brake_lights_on, running,
                           published, log_messages, pc>>]_vars

\* the three loops ran (a heartbeat went out, a frame was read), stop() joined
\* them and released the camera
C19_Witness ==
  /\ cap = "released"
  /\ pc["det"] = "done" /\ pc["hb"] = "done" /\ pc["lcm"] = "done"
  /\ hist.hb_found = 1
  /\ CopiesIn(HeartbeatMsg(VEHICLE_ID), published) = 1
  /\ hist.head_true = 1
  /\ CopiesIn(Detected, published) = 1
  /\ brake_lights_on

\* a sensing cycle that began before the mode became MEMBER is still going on
StaleCycle == hist.stale /\ pc["det"] \notin {"none", "loop", "done"}

\* C20: the brake latches in MEMBER mode: when the mode is MEMBER, the brake
\* is on and no sensing cycle that began before the mode became MEMBER is
\* still in progress, no step that leaves the mode MEMBER turns the brake off,
\* whether it belongs to the dispatcher, the heartbeat loop, a status report
\* or the sensing loop; and whenever the brake is released it is the sensing
\* loop that releases it, for a false sample.
C20_MemberBrakeLatch ==
  [][/\ (driving_mode = MEMBER /\ driving_mode' = MEMBER /\ brake_lights_on
           /\ ~StaleCycle)
         => brake_lights_on'
     /\ (brake_lights_on /\ ~brake_lights_on')
         => (pc["det"] = "off_set" /\ pc'["det"] # "off_set" /\ ~motion_detected)]_vars

\* a MEMBER whose brake a received warning has turned on is handling a false
\* sample of a sensing cycle that began in MEMBER mode: it has reached the
\* `elif self.driving_mode == 2` branch and the brake is still on
C20_Witness ==
  /\ driving_mode = MEMBER
  /\ hist.sdm_valid = 1
  /\ brake_lights_on
  /\ hist.relay_accepted = 1
  /\ pc["lcm"] = "loop"
  /\ pc["det"] = "hdm2"
  /\ ~motion_detected
  /\ ~StaleCycle

====
